---- MODULE Spec2Model ----
(***************************************************************************)
(* Model of llmtui's streaming chat session (src/main.go).                 *)
(*                                                                         *)
(* Two kinds of execution contexts are modelled:                           *)
(*   - the Bubble Tea UI loop, which runs model.Update on one message at a *)
(*     time (key presses and the messages returned by commands);           *)
(*   - one producer goroutine per request (startStreamingInBackground),    *)
(*     talking to the UI loop through a buffered Go channel.               *)
(* Commands returned by Update run in goroutines of their own; tea.Batch   *)
(* gives no ordering between the messages of the commands it runs, so the  *)
(* messages in flight form a bag that the UI loop drains in any order.     *)
(*                                                                         *)
(* Strings are sequences of one-character strings so that the "DONE:" and  *)
(* "ERROR:" framing of listenForStreamUpdates is computed, not assumed.    *)
(* The viewport field is a rendering of messages and is not modelled; the  *)
(* msgResponse and msgStreamChunk cases of Update are handled by no        *)
(* command of main.go and therefore never run.                             *)
(*                                                                         *)
(* Two variables are history, not program state: typed counts the literal  *)
(* keys accepted (it bounds the run) and last names the step just taken    *)
(* and its outcome, so that the properties can tell a key that was ignored *)
(* from no key at all.  Every action sets last.                            *)
(***************************************************************************)
EXTENDS Bags, FiniteSets, Integers, Sequences, TLC

\* ------------------------------------------------------------------ bounds
\* Number of chunks the gateway yields in one run, all requests together.
MaxDeltas == 1
\* Number of literal key presses the input buffer accepts in one run; a
\* submission needs a non-empty buffer, so it bounds the submissions too.
MaxKeys == 2
\* Capacity of the conduit.  main.go:153 allocates 100 slots; the model
\* scales it down, the code's behaviour depending only on len(buf) = cap.
ChanCap == 1

\* ------------------------------------------------------------ text helpers
DONE == <<"D", "O", "N", "E", ":">>
ERROR == <<"E", "R", "R", "O", "R", ":">>

\* strings.HasPrefix
HasPrefix(s, p) == Len(s) >= Len(p) /\ SubSeq(s, 1, Len(p)) = p

\* s[n:]
SliceFrom(s, n) == SubSeq(s, n + 1, Len(s))

\* Literal keys the user types ("q" is a quit binding, not a literal key).
Keys == {"a"}

\* Delta.Content values the gateway may yield (the empty one is skipped by
\* the producer loop).
Chunks == {<<"h">>, DONE}

\* stream.Err().Error() values.
GatewayErrors == {<<"r">>}

\* error values: nil, or an error with a description
NilErr == [nil |-> TRUE, text |-> <<>>]
Errorf(t) == [nil |-> FALSE, text |-> t]
KeyNotFound == Errorf(<<"n", "o", "k", "e", "y">>)

chatMessage(r, c) == [role |-> r, content |-> c]

\* ------------------------------------------------------------------- state
VARIABLES
    client,       \* "ok" or "nil": model.client
    messages,     \* model.messages
    input,        \* model.input
    loading,      \* model.loading
    streaming,    \* model.streaming
    partialResp,  \* model.partialResp
    err,          \* model.err
    streamChan,   \* model.streamChan: 0 (nil) or the index of a channel
    chans,        \* the channels made so far
    prod,         \* the producer goroutine of each channel
    inflight,     \* bag of commands running and messages not yet handled
    run,          \* "running", "quit" (tea.Quit) or "crashed" (panic)
    typed,        \* literal key presses accepted so far
    last          \* the last step taken and its outcome

modelVars == <<messages, input, loading, streaming, partialResp, err, streamChan>>
vars == <<client, messages, input, loading, streaming, partialResp, err,
          streamChan, chans, prod, inflight, run, typed, last>>

\* messages and commands in flight
Item(k, ch, c, e) == [kind |-> k, ch |-> ch, content |-> c, err |-> e]
streamStartMsg == Item("streamStartMsg", 0, <<>>, NilErr)
streamStarted == Item("streamStarted", 0, <<>>, NilErr)
listenCmd(ch) == Item("listen", ch, <<>>, NilErr)
streamUpdateMsg(c) == Item("streamUpdateMsg", 0, c, NilErr)
streamCompleteMsg(c, e) == Item("streamCompleteMsg", 0, c, e)

Step(k, o) == [kind |-> k, outcome |-> o]

\* ------------------------------------------------------------------- Init
initialModel ==
    /\ client \in {"ok", "nil"}
    /\ err = IF client = "nil" THEN KeyNotFound ELSE NilErr
    /\ messages = <<>>
    /\ input = <<>>
    /\ loading = FALSE
    /\ streaming = FALSE
    /\ partialResp = <<>>
    /\ streamChan = 0

Init ==
    /\ initialModel
    /\ chans = <<>>
    /\ prod = <<>>
    /\ inflight = EmptyBag
    /\ run = "running"
    /\ typed = 0
    /\ last = Step("init", "")

\* ------------------------------------------------------- channel operations
\* make(chan string, ChanCap)
MakeChan == [buf |-> <<>>, closed |-> FALSE, closes |-> <<>>, lateSends |-> 0]

\* select { case ch <- v: default: } : the value is queued when a slot is
\* free and silently dropped otherwise.  A send on a closed channel panics;
\* it is counted in lateSends.
TrySend(c, v) ==
    IF c.closed THEN [c EXCEPT !.lateSends = @ + 1]
    ELSE IF Len(c.buf) < ChanCap THEN [c EXCEPT !.buf = Append(@, v)]
    ELSE c

\* close(ch) by party who ("producer" or "consumer")
Close(c, who) == [c EXCEPT !.closed = TRUE, !.closes = Append(@, who)]

\* ------------------------------------------------- listenForStreamUpdates
\* What the poll returns for a value received from the channel.
Decode(content) ==
    IF HasPrefix(content, DONE)
        THEN streamCompleteMsg(SliceFrom(content, 5), NilErr)
    ELSE IF HasPrefix(content, ERROR)
        THEN streamCompleteMsg(<<>>, Errorf(SliceFrom(content, 6)))
    ELSE streamUpdateMsg(content)

\* The command's select: a queued value is received; a closed and drained
\* channel yields the zero value with ok = false; an open empty channel lets
\* the 50 ms timer fire.
listenForStreamUpdates(ch) ==
    /\ run = "running"
    /\ BagIn(listenCmd(ch), inflight)
    /\ LET c == chans[ch] IN
        IF c.buf # <<>> THEN
            /\ chans' = [chans EXCEPT ![ch].buf = Tail(@)]
            /\ inflight' = (inflight (-) SetToBag({listenCmd(ch)}))
                             (+) SetToBag({Decode(Head(c.buf))})
            /\ last' = Step("listen", "received")
        ELSE IF c.closed THEN
            /\ chans' = chans
            /\ inflight' = (inflight (-) SetToBag({listenCmd(ch)}))
                             (+) SetToBag({streamCompleteMsg(<<>>, NilErr)})
            /\ last' = Step("listen", "closed")
        ELSE
            /\ chans' = chans
            /\ inflight' = (inflight (-) SetToBag({listenCmd(ch)}))
                             (+) SetToBag({streamUpdateMsg(<<>>)})
            /\ last' = Step("listen", "timeout")
    /\ UNCHANGED <<client, modelVars, prod, run, typed>>

\* --------------------------------------------- startStreamingInBackground
\* A producer: where it is, the text accumulated in fullResponse, the
\* number of chunks the gateway has yielded and how its stream ended
\* ("none" while it runs, then "done", "error" or "panic").
NewProducer == [pc |-> "loop", fullResponse |-> <<>>, n |-> 0, result |-> "none"]

\* Chunks the gateway has yielded so far to the producers 1..k.
RECURSIVE Yielded(_)
Yielded(k) == IF k = 0 THEN 0 ELSE prod[k].n + Yielded(k - 1)

\* With a nil client (missing credential) the call at line 270 dereferences
\* nil: the deferred close runs and the unrecovered panic ends the process.
ProducerPanic(ch) ==
    /\ run = "running"
    /\ prod[ch].pc = "loop"
    /\ client = "nil"
    /\ chans' = [chans EXCEPT ![ch] = Close(@, "producer")]
    /\ prod' = [prod EXCEPT ![ch].pc = "exit", ![ch].result = "panic"]
    /\ run' = "crashed"
    /\ last' = Step("producer", "panic")
    /\ UNCHANGED <<client, modelVars, inflight, typed>>

\* One iteration of the loop: stream.Next() yields a chunk; a non-empty
\* delta is accumulated and the accumulated text is offered to the channel.
\* The gateway yields at most budget chunks over the session.
ProducerChunkUpTo(ch, delta, budget) ==
    /\ run = "running"
    /\ prod[ch].pc = "loop"
    /\ client = "ok"
    /\ Yielded(Len(prod)) < budget
    /\ LET full == prod[ch].fullResponse \o delta IN
        /\ prod' = [prod EXCEPT ![ch].fullResponse = full, ![ch].n = @ + 1]
        /\ chans' = IF delta # <<>>
                      THEN [chans EXCEPT ![ch] = TrySend(@, full)]
                      ELSE chans
    /\ last' = Step("producer", "chunk")
    /\ UNCHANGED <<client, modelVars, inflight, run, typed>>

ProducerChunk(ch, delta) == ProducerChunkUpTo(ch, delta, MaxDeltas)

\* Mutant of ProducerFinal: the channel is closed before the final result
\* is offered to it.
ProducerFinal_CloseFirst(ch, e) ==
    /\ run = "running"
    /\ prod[ch].pc = "loop"
    /\ client = "ok"
    /\ LET final == IF e.nil THEN DONE \o prod[ch].fullResponse
                             ELSE ERROR \o e.text IN
        chans' = [chans EXCEPT ![ch] = TrySend(Close(@, "producer"), final)]
    /\ prod' = [prod EXCEPT ![ch].pc = "close",
                             ![ch].result = IF e.nil THEN "done" ELSE "error"]
    /\ last' = Step("producer", IF e.nil THEN "done" ELSE "error")
    /\ UNCHANGED <<client, modelVars, inflight, run, typed>>

\* stream.Next() returns false with stream.Err() = e: the final result is
\* offered to the channel.
ProducerFinal(ch, e) ==
    /\ run = "running"
    /\ prod[ch].pc = "loop"
    /\ client = "ok"
    /\ LET final == IF e.nil THEN DONE \o prod[ch].fullResponse
                             ELSE ERROR \o e.text IN
        chans' = [chans EXCEPT ![ch] = TrySend(@, final)]
    /\ prod' = [prod EXCEPT ![ch].pc = "close",
                             ![ch].result = IF e.nil THEN "done" ELSE "error"]
    /\ last' = Step("producer", IF e.nil THEN "done" ELSE "error")
    /\ UNCHANGED <<client, modelVars, inflight, run, typed>>

\* defer close(streamChan)
ProducerClose(ch) ==
    /\ run = "running"
    /\ prod[ch].pc = "close"
    /\ chans' = [chans EXCEPT ![ch] = Close(@, "producer")]
    /\ prod' = [prod EXCEPT ![ch].pc = "exit"]
    /\ last' = Step("producer", "close")
    /\ UNCHANGED <<client, modelVars, inflight, run, typed>>

\* ------------------------------------------------------------ model.Update
Take(item) == inflight (-) SetToBag({item})

\* The two quit bindings.
QuitKeys == {"ctrl+c", "q"}

\* Mutant of UpdateKeyQuit: quitting waits for the request in flight.
UpdateKeyQuit_WhenIdle(k) ==
    /\ run = "running"
    /\ ~loading
    /\ run' = "quit"
    /\ chans' = <<>>
    /\ prod' = <<>>
    /\ inflight' = EmptyBag
    /\ last' = Step("quit", k)
    /\ UNCHANGED <<client, modelVars, typed>>

\* case "ctrl+c", "q": return m, tea.Quit.  The model is returned as it is;
\* p.Run() returns and main ends the process, and with it the goroutines,
\* their channels and the commands still running.
UpdateKeyQuit(k) ==
    /\ run = "running"
    /\ run' = "quit"
    /\ chans' = <<>>
    /\ prod' = <<>>
    /\ inflight' = EmptyBag
    /\ last' = Step("quit", k)
    /\ UNCHANGED <<client, modelVars, typed>>

\* Mutant of Submit: the batch holds the streamResponse command twice.
Submit_TwoRequests ==
    /\ messages' = Append(messages, chatMessage("user", input))
    /\ input' = <<>>
    /\ loading' = TRUE
    /\ inflight' = inflight (+) SetToBag({streamStartMsg}) (+) SetToBag({streamStarted})
                             (+) SetToBag({streamStarted})
    /\ UNCHANGED <<streaming, partialResp, err, streamChan>>

\* Mutant of Submit: a new submission clears the error of an earlier turn.
Submit_ClearsErr ==
    /\ messages' = Append(messages, chatMessage("user", input))
    /\ input' = <<>>
    /\ loading' = TRUE
    /\ err' = NilErr
    /\ inflight' = inflight (+) SetToBag({streamStartMsg}) (+) SetToBag({streamStarted})
    /\ UNCHANGED <<streaming, partialResp, streamChan>>

\* Mutant of Submit: the input buffer is not cleared.
Submit_KeepsInput ==
    /\ messages' = Append(messages, chatMessage("user", input))
    /\ input' = input
    /\ loading' = TRUE
    /\ inflight' = inflight (+) SetToBag({streamStartMsg}) (+) SetToBag({streamStarted})
    /\ UNCHANGED <<streaming, partialResp, err, streamChan>>

\* What "enter" does when the guard of line 120 holds.
Submit ==
    /\ messages' = Append(messages, chatMessage("user", input))
    /\ input' = <<>>
    /\ loading' = TRUE
    \* sendMessage: tea.Batch of the streamStartMsg command and streamResponse
    /\ inflight' = inflight (+) SetToBag({streamStartMsg}) (+) SetToBag({streamStarted})
    /\ UNCHANGED <<streaming, partialResp, err, streamChan>>

\* Mutant of EnterAccepted: the empty-input test is lost.
EnterAccepted_NoEmptyTest == ~loading

\* The guard of line 120.
EnterAccepted == input # <<>> /\ ~loading

\* case "enter"
UpdateKeyEnter ==
    /\ run = "running"
    /\ IF EnterAccepted
         THEN Submit /\ last' = Step("enter", "accepted")
         ELSE UNCHANGED <<modelVars, inflight>> /\ last' = Step("enter", "ignored")
    /\ UNCHANGED <<client, chans, prod, run, typed>>

\* case "backspace"
UpdateKeyBackspace ==
    /\ run = "running"
    /\ input' = IF Len(input) > 0 THEN SubSeq(input, 1, Len(input) - 1) ELSE input
    /\ last' = Step("backspace", IF Len(input) > 0 THEN "erased" ELSE "ignored")
    /\ UNCHANGED <<client, messages, loading, streaming, partialResp, err,
                   streamChan, chans, prod, inflight, run, typed>>

\* Mutant of KeyAccepted: the loading test is lost.
KeyAccepted_NoLoadingTest == TRUE

\* The guard of line 135.
KeyAccepted == ~loading

\* default: any other key
UpdateKeyDefault(k) ==
    /\ run = "running"
    /\ KeyAccepted => typed < MaxKeys
    /\ input' = IF KeyAccepted THEN Append(input, k) ELSE input
    /\ typed' = IF KeyAccepted THEN typed + 1 ELSE typed
    /\ last' = Step("key", IF KeyAccepted THEN "appended" ELSE "ignored")
    /\ UNCHANGED <<client, messages, loading, streaming, partialResp, err,
                   streamChan, chans, prod, inflight, run>>

\* case streamStartMsg
UpdateStreamStartMsg ==
    /\ run = "running"
    /\ BagIn(streamStartMsg, inflight)
    /\ inflight' = Take(streamStartMsg)
    /\ streaming' = TRUE
    /\ partialResp' = <<>>
    /\ last' = Step("streamStartMsg", "")
    /\ UNCHANGED <<client, messages, input, loading, err, streamChan, chans,
                   prod, run, typed>>

\* case streamStarted: make the channel, start the producer goroutine and
\* return the first poll
UpdateStreamStarted ==
    /\ run = "running"
    /\ BagIn(streamStarted, inflight)
    /\ chans' = Append(chans, MakeChan)
    /\ prod' = Append(prod, NewProducer)
    /\ streamChan' = Len(chans) + 1
    /\ inflight' = Take(streamStarted) (+) SetToBag({listenCmd(Len(chans) + 1)})
    /\ last' = Step("streamStarted", "")
    /\ UNCHANGED <<client, messages, input, loading, streaming, partialResp,
                   err, run, typed>>

\* Mutant of UpdateStreamUpdateMsg: the poll is re-issued only after an
\* update that carries text.
UpdateStreamUpdateMsg_NoRepollOnEmpty(msg) ==
    /\ run = "running"
    /\ msg.kind = "streamUpdateMsg"
    /\ BagIn(msg, inflight)
    /\ partialResp' = IF msg.content # <<>> THEN msg.content ELSE partialResp
    /\ inflight' = IF streamChan # 0 /\ msg.content # <<>>
                     THEN Take(msg) (+) SetToBag({listenCmd(streamChan)})
                     ELSE Take(msg)
    /\ last' = Step("streamUpdateMsg", IF msg.content # <<>> THEN "text" ELSE "empty")
    /\ UNCHANGED <<client, messages, input, loading, streaming, err,
                   streamChan, chans, prod, run, typed>>

\* case streamUpdateMsg
UpdateStreamUpdateMsg(msg) ==
    /\ run = "running"
    /\ msg.kind = "streamUpdateMsg"
    /\ BagIn(msg, inflight)
    /\ partialResp' = IF msg.content # <<>> THEN msg.content ELSE partialResp
    /\ inflight' = IF streamChan # 0
                     THEN Take(msg) (+) SetToBag({listenCmd(streamChan)})
                     ELSE Take(msg)
    /\ last' = Step("streamUpdateMsg", IF msg.content # <<>> THEN "text" ELSE "empty")
    /\ UNCHANGED <<client, messages, input, loading, streaming, err,
                   streamChan, chans, prod, run, typed>>

\* Mutant of UpdateStreamCompleteMsg: the error branch returns before the
\* flags are cleared.
UpdateStreamCompleteMsg_EarlyReturn(msg) ==
    /\ run = "running"
    /\ msg.kind = "streamCompleteMsg"
    /\ BagIn(msg, inflight)
    /\ inflight' = Take(msg)
    /\ IF ~msg.err.nil
         THEN /\ err' = msg.err
              /\ UNCHANGED <<messages, loading, streaming, streamChan, partialResp>>
         ELSE /\ messages' = Append(messages, chatMessage("assistant", msg.content))
              /\ loading' = FALSE
              /\ streaming' = FALSE
              /\ streamChan' = 0
              /\ partialResp' = <<>>
              /\ err' = err
    /\ last' = Step("streamCompleteMsg", IF msg.err.nil THEN "done" ELSE "error")
    /\ UNCHANGED <<client, input, chans, prod, run, typed>>

\* Mutant of UpdateStreamCompleteMsg: the assistant message replaces the
\* last message of the transcript instead of being appended.
UpdateStreamCompleteMsg_Overwrite(msg) ==
    /\ run = "running"
    /\ msg.kind = "streamCompleteMsg"
    /\ BagIn(msg, inflight)
    /\ inflight' = Take(msg)
    /\ loading' = FALSE
    /\ streaming' = FALSE
    /\ streamChan' = 0
    /\ IF ~msg.err.nil
         THEN err' = msg.err /\ messages' = messages
         ELSE /\ messages' = [messages EXCEPT ![Len(messages)] =
                                  chatMessage("assistant", msg.content)]
              /\ err' = err
    /\ partialResp' = <<>>
    /\ last' = Step("streamCompleteMsg", IF msg.err.nil THEN "done" ELSE "error")
    /\ UNCHANGED <<client, input, chans, prod, run, typed>>

\* case streamCompleteMsg
UpdateStreamCompleteMsg(msg) ==
    /\ run = "running"
    /\ msg.kind = "streamCompleteMsg"
    /\ BagIn(msg, inflight)
    /\ inflight' = Take(msg)
    /\ loading' = FALSE
    /\ streaming' = FALSE
    /\ streamChan' = 0
    /\ IF ~msg.err.nil
         THEN err' = msg.err /\ messages' = messages
         ELSE /\ messages' = Append(messages, chatMessage("assistant", msg.content))
              /\ err' = err
    /\ partialResp' = <<>>
    /\ last' = Step("streamCompleteMsg", IF msg.err.nil THEN "done" ELSE "error")
    /\ UNCHANGED <<client, input, chans, prod, run, typed>>

\* --------------------------------------------------------------- model.View
\* What the screen shows.  With err set: the error and the quit hint, and
\* nothing else.  Otherwise: the viewport (the rendering of messages, which
\* Update extends with every message it appends), the progress line while
\* loading, the input line with its cursor, and the help line.
View ==
    IF ~err.nil
      THEN [screen |-> "error", error |-> err.text, help |-> "Press q to quit."]
      ELSE [screen |-> "chat",
            viewport |-> messages,
            progress |-> IF ~loading THEN <<>>
                         ELSE IF streaming /\ partialResp # <<>>
                                THEN <<"LLM: ", partialResp>>
                                ELSE <<"LLM is typing...">>,
            input |-> input,
            cursor |-> ~loading,
            help |-> "Press Enter to send, Ctrl+C or q to quit"]

\* -------------------------------------------------------------------- Next
\* The UI loop dispatches one message to Update.
Update ==
    \/ \E k \in QuitKeys : UpdateKeyQuit(k)
    \/ UpdateKeyEnter
    \/ UpdateKeyBackspace
    \/ \E k \in Keys : UpdateKeyDefault(k)
    \/ UpdateStreamStartMsg
    \/ UpdateStreamStarted
    \/ \E msg \in BagToSet(inflight) : UpdateStreamUpdateMsg(msg)
    \/ \E msg \in BagToSet(inflight) : UpdateStreamCompleteMsg(msg)

\* A producer goroutine takes its next step.
startStreamingInBackground ==
    \/ \E ch \in DOMAIN prod : ProducerPanic(ch)
    \/ \E ch \in DOMAIN prod, delta \in Chunks : ProducerChunk(ch, delta)
    \/ \E ch \in DOMAIN prod : ProducerFinal(ch, NilErr)
    \/ \E ch \in DOMAIN prod, t \in GatewayErrors : ProducerFinal(ch, Errorf(t))
    \/ \E ch \in DOMAIN prod : ProducerClose(ch)

\* A poll command returns.
Poll == \E ch \in DOMAIN chans : listenForStreamUpdates(ch)

Next == Update \/ Poll \/ startStreamingInBackground

Spec == Init /\ [][Next]_vars

\* Scheduling: the runtime delivers every message in flight to Update,
\* every poll command returns and a producer goroutine keeps running.  Key
\* presses are the user's and are under no obligation to happen.
Fairness ==
    /\ WF_vars(UpdateStreamStartMsg)
    /\ WF_vars(UpdateStreamStarted)
    /\ WF_vars(\E msg \in BagToSet(inflight) : UpdateStreamUpdateMsg(msg))
    /\ WF_vars(\E msg \in BagToSet(inflight) : UpdateStreamCompleteMsg(msg))
    /\ WF_vars(Poll)
    /\ WF_vars(startStreamingInBackground)

SpecFair == Spec /\ Fairness

\* The same program with a gateway that yields enough chunks to fill the
\* channel and still offer one more.
BurstDeltas == MaxDeltas + ChanCap

startStreamingBurst ==
    \/ \E ch \in DOMAIN prod : ProducerPanic(ch)
    \/ \E ch \in DOMAIN prod, delta \in Chunks : ProducerChunkUpTo(ch, delta, BurstDeltas)
    \/ \E ch \in DOMAIN prod : ProducerFinal(ch, NilErr)
    \/ \E ch \in DOMAIN prod, t \in GatewayErrors : ProducerFinal(ch, Errorf(t))
    \/ \E ch \in DOMAIN prod : ProducerClose(ch)

NextBurst == Update \/ Poll \/ startStreamingBurst

SpecBurst == Init /\ [][NextBurst]_vars

\* ================================================================== claims
\* The turn most recently started, and what the session shows of it.
Turn == Len(prod)
LastMessage == messages[Len(messages)]
Resolved == last.kind = "streamCompleteMsg"
sessionVars == <<modelVars, chans, prod, inflight, run>>

\* The text of the turn's stream does not begin with one of the markers of
\* the framing, so none of its snapshots reads as a terminal event.
PlainText ==
    /\ ~HasPrefix(prod[Turn].fullResponse, DONE)
    /\ ~HasPrefix(prod[Turn].fullResponse, ERROR)

\* C1: once the turn of a stream that ended without error resolves, the
\* last message of the transcript is the assistant message whose content is
\* the final accumulated text dn of that stream.  Stated for the streams of
\* plain text, which are among the sequences the claim is about.
C1_FinalTextDelivered ==
    (Resolved /\ prod[Turn].result = "done" /\ PlainText) =>
        LastMessage = chatMessage("assistant", prod[Turn].fullResponse)

\* C2: once the turn of a stream that ended with an error resolves, the
\* error description is recorded in err and no assistant message was
\* appended for the turn.  Stated for the streams of plain text.
C2_ErrorSurfaced ==
    (Resolved /\ prod[Turn].result = "error" /\ PlainText) =>
        /\ ~err.nil
        /\ err.text \in GatewayErrors
        /\ LastMessage.role = "user"

\* C3: the step that handles a streamCompleteMsg carrying an error leaves
\* the transcript as it was and ends with loading and streaming false, the
\* partial text empty and the stream handle nil.
C3_ErrorEventClears ==
    [][last' = Step("streamCompleteMsg", "error") =>
          /\ messages' = messages
          /\ ~loading'
          /\ ~streaming'
          /\ partialResp' = <<>>
          /\ streamChan' = 0]_vars

C3_Witness ==
    /\ last = Step("streamCompleteMsg", "error")
    /\ prod[Turn].result = "error"
    /\ err.text \in GatewayErrors

\* C4: in every state, streaming implies loading.
C4_StreamingImpliesLoading == streaming => loading

\* C5: in every state, a non-empty partial text implies streaming.
C5_PartialOnlyWhileStreaming == partialResp # <<>> => streaming

\* C6: in every state at most one producer has been started and has not
\* yet closed its conduit.
Active == {ch \in DOMAIN prod : prod[ch].pc # "exit"}
C6_AtMostOneProducer == Cardinality(Active) <= 1

\* C7: every conduit is closed at most once and only by its producer, is
\* closed exactly once when its producer has returned, and is never sent to
\* after it was closed.
C7_ClosedOnceByProducer ==
    \A ch \in DOMAIN chans :
        /\ Len(chans[ch].closes) <= 1
        /\ \A i \in DOMAIN chans[ch].closes : chans[ch].closes[i] = "producer"
        /\ chans[ch].closed <=> chans[ch].closes # <<>>
        /\ prod[ch].pc = "exit" <=> chans[ch].closes = <<"producer">>
        /\ chans[ch].lateSends = 0

C7_Witness ==
    \E c1, c2 \in DOMAIN chans :
        /\ prod[c1].result = "done" /\ chans[c1].closes = <<"producer">>
        /\ prod[c2].result = "error" /\ chans[c2].closes = <<"producer">>

\* C8: with the credential missing, a key press other than quit leaves the
\* whole session as it was and starts no request.
C8_FatalIgnoresKeys ==
    [][(client = "nil" /\ last'.kind \in {"key", "enter", "backspace"}) =>
          UNCHANGED sessionVars]_vars

\* C9: a literal key pressed while loading leaves the input buffer as it
\* was; handling the terminal event of a turn clears loading; and a literal
\* key pressed while not loading is appended to the input buffer.
C9_KeysIgnoredWhileLoading ==
    [][/\ (last'.kind = "key" /\ loading) => input' = input
       /\ (last'.kind = "key" /\ ~loading) =>
              \E k \in Keys : input' = Append(input, k)
       /\ last'.kind = "streamCompleteMsg" => ~loading']_vars

C9_Witness ==
    /\ last = Step("key", "appended")
    /\ input # <<>>
    /\ Turn >= 1
    /\ prod[Turn].result \in {"done", "error"}
    /\ Len(messages) >= 1
    /\ ~loading

\* C10: enter pressed with an empty input buffer, or while loading, leaves
\* the session as it was: no message is appended and no command is issued.
C10_EmptySubmitIgnored ==
    [][(last'.kind = "enter" /\ (input = <<>> \/ loading)) =>
          /\ UNCHANGED sessionVars
          /\ last'.outcome = "ignored"]_vars

C10_Witness ==
    /\ last = Step("enter", "ignored")
    /\ input = <<>>
    /\ ~loading
    /\ messages = <<>>
    /\ client = "ok"

\* C11: in every state of the running program, whatever the request in
\* flight, each quit binding is honoured; the step that handles it ends the
\* program and leaves the session state as it was.
C11_QuitAlwaysHonoured ==
    [][/\ run = "running" => \A k \in QuitKeys : ENABLED UpdateKeyQuit(k)
       /\ last'.kind = "quit" =>
              /\ run' = "quit"
              /\ last'.outcome \in QuitKeys
              /\ UNCHANGED modelVars]_vars

C11_Witness ==
    /\ last = Step("quit", "q")
    /\ run = "quit"
    /\ loading
    /\ streaming
    /\ partialResp # <<>>

\* C12: once the turn of a stream that ended without error and without any
\* content resolves, an error is recorded, no assistant message was
\* appended for the turn, and loading is cleared.
C12_EmptyResponseIsError ==
    (Resolved /\ prod[Turn].result = "done" /\ prod[Turn].fullResponse = <<>>) =>
        /\ ~err.nil
        /\ LastMessage.role = "user"
        /\ ~loading

\* User messages of the transcript, and the idle state after a turn whose
\* stream ended with a gateway error.
Users == Len(SelectSeq(messages, LAMBDA x : x.role = "user"))
Failed == ~loading /\ Turn >= 1 /\ prod[Turn].result = "error"

C14_TranscriptAppendOnly ==
    [][\/ messages' = messages
       \/ /\ Len(messages') = Len(messages) + 1
          /\ SubSeq(messages', 1, Len(messages)) = messages
          /\ LET m == messages'[Len(messages')] IN
                \/ /\ m = chatMessage("user", input)
                   /\ last' = Step("enter", "accepted")
                \/ /\ m.role = "assistant"
                   /\ last' = Step("streamCompleteMsg", "done")]_vars

\* A second user message has been appended behind the first turn's
\* user and assistant messages.
C14_Witness ==
    /\ last = Step("enter", "accepted")
    /\ Len(messages) = 3
    /\ messages[1].role = "user"
    /\ messages[2].role = "assistant"
    /\ messages[3].role = "user"

\* C15: when the producer offers a cumulative snapshot to a full channel it
\* does not block, the oldest pending value is dropped and the new snapshot
\* is the newest value kept in the channel.
C15_FullConduitKeepsNewest ==
    [][\A ch \in DOMAIN prod :
          (/\ ch \in DOMAIN prod'
           /\ last' = Step("producer", "chunk")
           /\ prod'[ch].n = prod[ch].n + 1
           /\ Len(chans[ch].buf) = ChanCap)
          => /\ prod'[ch].pc = "loop"
             /\ chans'[ch].buf = Append(Tail(chans[ch].buf), prod'[ch].fullResponse)]_vars

\* The polling cycle of a request: the poll command that is running, or the
\* response it has returned and Update has not handled yet.
Cycle == {i \in BagToSet(inflight) :
            i.kind \in {"listen", "streamUpdateMsg", "streamCompleteMsg"}}

\* C16: handling a non-terminal response (text or timeout) re-issues the
\* poll on the stored handle; handling a terminal response sets the handle
\* absent and issues no poll; at most one poll or poll response is
\* outstanding, and one is outstanding exactly while the handle is set; a
\* poll reads only the channel of the stored handle, which is the newest
\* channel, so a channel is never read after its terminal event was handled.
C16_PollingCycle ==
    [][run' = "running" =>
        /\ last'.kind = "streamUpdateMsg" =>
              /\ streamChan' # 0
              /\ Cycle' = {listenCmd(streamChan')}
        /\ last'.kind = "streamCompleteMsg" =>
              /\ streamChan' = 0
              /\ Cycle' = {}
        /\ last'.kind = "listen" =>
              /\ streamChan # 0
              /\ Cycle = {listenCmd(streamChan)}
              /\ \A ch \in DOMAIN chans : ch # streamChan => chans'[ch] = chans[ch]
        /\ \A i \in Cycle' : CopiesIn(i, inflight') = 1
        /\ Cardinality(Cycle') = IF streamChan' # 0 THEN 1 ELSE 0
        /\ streamChan' \in {0, Len(chans')}]_vars

\* The poll has been re-issued after a timeout, the partial text of an
\* earlier cycle being on display.
C16_Witness ==
    /\ last = Step("streamUpdateMsg", "empty")
    /\ partialResp # <<>>
    /\ streamChan # 0
    /\ Cycle = {listenCmd(streamChan)}

\* C17: under fair scheduling of the UI loop, the polls and the producers,
\* and with a gateway whose stream is finite, every state with loading set
\* is followed by a state with loading cleared, unless the user quits first.
C17_EverySubmissionResolves == loading ~> (~loading \/ run = "quit")

\* C18: a turn resolves only after its producer has offered its final
\* result or closed the channel, never on a partial snapshot, whatever the
\* text of the snapshot.
C18_ResolvesOnlyOnTerminal == Resolved => prod[Turn].result # "none"

\* C19: once err is set no step clears it, whatever the step (a later turn
\* that completes without error included), and the view shows the error
\* screen and nothing of the chat.
C19_ErrorIsSticky ==
    [][~err.nil =>
        /\ ~err'.nil
        /\ View' = [screen |-> "error", error |-> err'.text,
                     help |-> "Press q to quit."]]_vars

\* After a gateway error a later turn has completed without error: its
\* assistant message is appended and the error is still set and shown.
C19_Witness ==
    /\ last = Step("streamCompleteMsg", "done")
    /\ client = "ok"
    /\ LastMessage.role = "assistant"
    /\ ~err.nil
    /\ View.screen = "error"

\* C20: while loading is set the input buffer is empty, so a backspace
\* handled while loading never erases anything.
C20_LoadingImpliesEmptyInput ==
    /\ loading => input = <<>>
    /\ last = Step("backspace", "erased") => ~loading

\* A backspace has been handled during a request and has done nothing.
C20_Witness ==
    /\ last = Step("backspace", "ignored")
    /\ loading
    /\ input = <<>>

====
